---- MODULE Spec2Model ----
(***************************************************************************)
(* State-machine model of the rhythm game in src/src/app/page.tsx.  The    *)
(* file holds three revisions of the RhythmGame component:                 *)
(*   variant 1  lines    1-485   (4 lanes, no pause offset, notes.find)    *)
(*   variant 2  lines  486-1310  (key modes, difficulty, pauseTimeRef)     *)
(*   variant 3  lines 1311-1961  (4 lanes, speed multiplier, pauseTimeRef) *)
(*                                                                         *)
(* Units.  Timestamps are DOMHighResTimeStamp values (fractional ms) and   *)
(* positions are real pixels.  The model keeps both exact in integers:     *)
(* a time is counted in 1/TimeDen ms and a position in 1/PosScale px, so   *)
(* that (noteTime / 1000) * BASE_NOTE_SPEED * speedMultiplier * factor is  *)
(* the integer noteTime * BASE_NOTE_SPEED * speedQ * factorF.              *)
(*                                                                         *)
(* React.  useState values are the folded update queue (every updater      *)
(* sees the value left by the one before it).  A closure sees the values   *)
(* of the last render: rNotes is the notes array of the last render, read  *)
(* by checkNoteHit and by gameLoop's sweep.  Discrete events (keydown,     *)
(* keyup, click) render their own updates and flush effects before they    *)
(* return; updates made in a requestAnimationFrame callback are rendered   *)
(* later (Render), a discrete render in between leaves them out, and until *)
(* they are rendered the callback that gameLoop rescheduled still holds    *)
(* the old closure.                                                        *)
(***************************************************************************)
EXTENDS Integers, Sequences, FiniteSets, TLC

VARIABLES
  variant,          \* which revision of the component runs (fixed)
  gameState,        \* useState "menu" | "playing" | "paused" | "ended"
  notes,            \* useState Note[] (folded update queue)
  stats,            \* useState GameStats
  pressedKeys,      \* useState Set<number>
  judgment,         \* useState judgment label text, "none" for null
  speedMultiplier,  \* useState, in quarters (4 = 1.0x)
  keyMode,          \* useState 4 | 6 | 8
  difficulty,       \* useState "easy" | "normal" | "hard"
  startTimeRef,     \* useRef, 0 = unset
  pauseTimeRef,     \* useRef
  animationRef,     \* useRef: 0 = never requested, 1 = holds a request id
  noteIdRef,        \* useRef
  rafPending,       \* the request named by animationRef is still pending
  pendingFrames,    \* number of requestAnimationFrame callbacks neither run nor cancelled
  timers,           \* due times of the pending setJudgment(null) timeouts
  now,              \* the last frame timestamp, 0 before the first frame
  rNotes,           \* notes as of the last render (what closures read)
  rCombo,           \* stats.combo as of the last render (variant 1's effect dep)
  dirty,            \* updates of a frame callback are waiting for a render
  lastOp,           \* history: the command, hit or tick that ran last, else "other"
  elapsed,          \* history: gameLoop's local elapsed of the last tick
  pausedElapsed,    \* history: elapsed at the moment of the last pause
  resumed,          \* history: a resume happened and no tick ran since
  afterResume,      \* history: the last tick was the first one after a resume
  judged,           \* history: what the last checkNoteHit saw and decided, and the score it added
  swept,            \* history: ids the last tick's sweep counted as missed
  mounted,          \* the component is mounted (its effects are installed)
  held              \* history: the key codes physically held down, or Untracked

vars == <<variant, gameState, notes, stats, pressedKeys, judgment,
          speedMultiplier, keyMode, difficulty, startTimeRef, pauseTimeRef,
          animationRef, noteIdRef, rafPending, pendingFrames, timers, now, rNotes, rCombo,
          dirty, lastOp, elapsed, pausedElapsed, resumed, afterResume,
          judged, swept, mounted, held>>

-----------------------------------------------------------------------------
(* Units and bounds *)

TimeDen == 7
SpeedDen == 4
DiffDen == 5
RandDen == 35
PosScale == 1000 * TimeDen * SpeedDen * DiffDen

\* Chart horizon in ms used in place of the 60000 / 90000 of generateNotes.
HorizonMs == 3457
\* Length of the tape of Math.random() results handed to generateNotes.
MaxRandomCalls == 4
\* Length of the tape when generateNotes is taken on its own.
ChartRandomCalls == 6
\* startGame is offered while noteIdRef is below this.
MaxNoteId == 2
\* A tick runs while it leaves stats.miss at or below this.
MaxMiss == 2
\* The timestamp of the first frame the environment offers, in 1/TimeDen ms.
TimeOrigin == 800
\* The frame timestamps the environment delivers: the origin, and readings
\* LeadIn + k * FrameStep after it for the k of FrameIndexes.
LeadIn == 29400
FrameStep == 200
FrameIndexes == {0, 4, 19}
Instants ==
  {TimeOrigin} \cup {TimeOrigin + LeadIn + k * FrameStep : k \in FrameIndexes}
\* Math.random() results, in 1/RandDen.
RandomValues == {0, 5}
\* Speed multipliers offered to the menu, in 1/SpeedDen.
SpeedChoices == {4, 8}
KeyModeChoices == {4, 6}
DifficultyChoices == {"normal", "hard"}
\* Key codes the environment sends.
KeyCodes == {"ArrowLeft", "KeyJ"}
\* The codes of the observed keyboard: two codes of one 4-key lane and a code
\* that only the 6- and 8-key tables map.
HeldKeyCodes == {"KeyA", "ArrowLeft", "KeyJ"}
\* The inputs of generateNotes taken on their own: every key mode and
\* difficulty, and Math.random() results that reach every kind of pattern.
ChartKeyModes == {4, 6, 8}
ChartDifficulties == {"easy", "normal", "hard"}
ChartRandomValues == {0, 5, 15, 25, 34}

-----------------------------------------------------------------------------
(* Program constants *)

NOTE_SPEED == 300
BASE_NOTE_SPEED == 350
JUDGMENT_LINE_Y == 500
PERFECT_THRESHOLD(v) == IF v = 1 THEN 50 ELSE 40
GOOD_THRESHOLD(v) == IF v = 1 THEN 100 ELSE 80
JUDGMENT_MS == 500

Px(p) == p * PosScale

Max(a, b) == IF a >= b THEN a ELSE b
Abs(a) == IF a >= 0 THEN a ELSE 0 - a


-----------------------------------------------------------------------------
(* KEY_MODES and DIFFICULTY_SETTINGS *)

\* The keyMap of a key mode; -1 stands for undefined.
KeyMap4(code) ==
  CASE code \in {"KeyA", "ArrowLeft"} -> 0
    [] code \in {"KeyS", "ArrowDown"} -> 1
    [] code \in {"KeyD", "ArrowUp"} -> 2
    [] code \in {"KeyF", "ArrowRight"} -> 3
    [] OTHER -> -1

KeyMap6(code) ==
  CASE code = "KeyA" -> 0
    [] code = "KeyS" -> 1
    [] code = "KeyD" -> 2
    [] code = "KeyJ" -> 3
    [] code = "KeyK" -> 4
    [] code = "KeyL" -> 5
    [] OTHER -> -1

KeyMap8(code) ==
  CASE code = "KeyA" -> 0
    [] code = "KeyS" -> 1
    [] code = "KeyD" -> 2
    [] code = "KeyF" -> 3
    [] code = "KeyJ" -> 4
    [] code = "KeyK" -> 5
    [] code = "KeyL" -> 6
    [] code = "Semicolon" -> 7
    [] OTHER -> -1

\* currentKeyConfig.keyMap[event.code]; variants 1 and 3 carry the 4-key table.
KEY_MODES(v, km, code) ==
  IF v = 2 /\ km = 6 THEN KeyMap6(code)
  ELSE IF v = 2 /\ km = 8 THEN KeyMap8(code)
  ELSE KeyMap4(code)

\* noteInterval in ms, patternComplexity in tenths, speedMultiplier in 1/DiffDen.
DIFFICULTY_SETTINGS(d) ==
  CASE d = "easy" -> [min |-> 800, max |-> 1200, patternComplexity |-> 3, speedMultiplier |-> 4]
    [] d = "normal" -> [min |-> 400, max |-> 800, patternComplexity |-> 6, speedMultiplier |-> 5]
    [] d = "hard" -> [min |-> 200, max |-> 600, patternComplexity |-> 10, speedMultiplier |-> 6]

-----------------------------------------------------------------------------
(* Chart Generator *)

Singles(lanes) == [i \in 1..lanes |-> <<i - 1>>]

\* Faulty variant (sensitivity of the properties): the adjacent pair written with the same lane twice.
RECURSIVE DoublesSameLane(_, _)
DoublesSameLane(i, lanes) ==
  IF i >= lanes - 1 THEN <<>>
  ELSE (IF i < lanes - 2 THEN << <<i, i>>, <<i, i + 2>> >> ELSE << <<i, i>> >>)
       \o DoublesSameLane(i + 1, lanes)

\* Faulty variant (sensitivity of the properties): the skip pair pushed without its lane check.
RECURSIVE DoublesNoCheck(_, _)
DoublesNoCheck(i, lanes) ==
  IF i >= lanes - 1 THEN <<>>
  ELSE << <<i, i + 1>>, <<i, i + 2>> >> \o DoublesNoCheck(i + 1, lanes)

RECURSIVE Doubles(_, _)
Doubles(i, lanes) ==
  IF i >= lanes - 1 THEN <<>>
  ELSE (IF i < lanes - 2 THEN << <<i, i + 1>>, <<i, i + 2>> >> ELSE << <<i, i + 1>> >>)
       \o Doubles(i + 1, lanes)

Triples(lanes) == [i \in 1..(lanes - 2) |-> <<i - 1, i, i + 1>>]

Quads == << <<0, 1, 2, 3>>, <<4, 5, 6, 7>>, <<0, 2, 4, 6>>, <<1, 3, 5, 7>> >>

\* Faulty variant (sensitivity of the properties): pairs and triples without their gates.
generatePatternsUngated(lanes, d) ==
  Singles(lanes) \o Doubles(0, lanes) \o Triples(lanes)

generatePatterns(lanes, d) ==
  LET c == DIFFICULTY_SETTINGS(d).patternComplexity
      patterns == Singles(lanes)
                  \o (IF c >= 6 THEN Doubles(0, lanes) ELSE <<>>)
                  \o (IF c >= 10 /\ lanes >= 6 THEN Triples(lanes) ELSE <<>>)
                  \o (IF c >= 10 /\ lanes >= 8 THEN Quads ELSE <<>>)
  IN IF d = "easy" THEN SelectSeq(patterns, LAMBDA p : Len(p) <= 2) ELSE patterns

\* The literal pattern tables of variants 1 and 3.
PatternsV1 == << <<0>>, <<1>>, <<2>>, <<3>>, <<0, 2>>, <<1, 3>>, <<0, 3>>, <<1, 2>>,
                 <<0, 1, 2>>, <<1, 2, 3>> >>
PatternsV3 == << <<0>>, <<1>>, <<2>>, <<3>>, <<0, 2>>, <<1, 3>>, <<0, 3>>, <<1, 2>>,
                 <<0, 1>>, <<1, 2>>, <<2, 3>>, <<0, 1, 2>>, <<1, 2, 3>> >>

\* Math.floor(Math.random() * n) for the random value r / RandDen.
RandomIndex(r, n) == (r * n) \div RandDen

\* The pattern chosen at one step and the number of Math.random() calls it took.
selectedPattern(v, d, patterns, rs, k) ==
  IF v = 2 /\ d = "easy"
  THEN LET singleNotes == SelectSeq(patterns, LAMBDA p : Len(p) = 1)
           doubleNotes == SelectSeq(patterns, LAMBDA p : Len(p) = 2)
       IN [calls |-> 2,
           pattern |-> IF rs[k] * 10 < 7 * RandDen
                       THEN singleNotes[RandomIndex(rs[k + 1], Len(singleNotes)) + 1]
                       ELSE IF doubleNotes = <<>> THEN singleNotes[1]
                       ELSE doubleNotes[RandomIndex(rs[k + 1], Len(doubleNotes)) + 1]]
  ELSE [calls |-> 1, pattern |-> patterns[RandomIndex(rs[k], Len(patterns)) + 1]]

\* First scheduled time and the interval bounds of the loop, in ms.
FirstTimeMs(v) == IF v = 1 THEN 2000 ELSE 3000
IntervalMin(v, d) == IF v = 1 THEN 500 ELSE IF v = 3 THEN 400 ELSE DIFFICULTY_SETTINGS(d).min
IntervalMax(v, d) == IF v = 1 THEN 1500 ELSE IF v = 3 THEN 1000 ELSE DIFFICULTY_SETTINGS(d).max

\* min + Math.random() * (max - min), in 1/TimeDen ms.
Interval(v, d, r) ==
  IntervalMin(v, d) * TimeDen + (r * (IntervalMax(v, d) - IntervalMin(v, d)) * TimeDen) \div RandDen

NewNote(id, lane, time) ==
  [id |-> id, lane |-> lane, startTime |-> time, currentY |-> (0 - 100) * PosScale, hit |-> FALSE]

\* The for loop of generateNotes: one pattern per step, one note per lane of it.
RECURSIVE GenLoop(_, _, _, _, _, _, _, _)
GenLoop(v, d, patterns, rs, time, k, id, newNotes) ==
  IF time >= HorizonMs * TimeDen THEN [notes |-> newNotes, nextId |-> id]
  ELSE LET needed == IF v = 2 /\ d = "easy" THEN 3 ELSE 2
       IN IF k + needed - 1 > Len(rs) THEN [notes |-> newNotes, nextId |-> id]
          ELSE LET sel == selectedPattern(v, d, patterns, rs, k)
                   pushed == [j \in 1..Len(sel.pattern) |->
                                NewNote(id + j - 1, sel.pattern[j], time)]
               IN GenLoop(v, d, patterns, rs,
                          time + Interval(v, d, rs[k + sel.calls]),
                          k + sel.calls + 1, id + Len(sel.pattern), newNotes \o pushed)

\* Faulty variant (sensitivity of the properties): the comparator with its operands swapped.
RECURSIVE InsertByStartTimeDescending(_, _)
InsertByStartTimeDescending(n, s) ==
  IF s = <<>> THEN <<n>>
  ELSE IF n.startTime > Head(s).startTime THEN <<n>> \o s
  ELSE <<Head(s)>> \o InsertByStartTimeDescending(n, Tail(s))

\* Array.prototype.sort((a, b) => a.startTime - b.startTime): stable.
RECURSIVE InsertByStartTime(_, _)
InsertByStartTime(n, s) ==
  IF s = <<>> THEN <<n>>
  ELSE IF n.startTime < Head(s).startTime THEN <<n>> \o s
  ELSE <<Head(s)>> \o InsertByStartTime(n, Tail(s))

RECURSIVE SortByStartTime(_)
SortByStartTime(s) ==
  IF s = <<>> THEN <<>>
  ELSE InsertByStartTime(s[Len(s)], SortByStartTime(SubSeq(s, 1, Len(s) - 1)))

generateNotes(v, km, d, rs, id) ==
  LET patterns == IF v = 1 THEN PatternsV1 ELSE IF v = 3 THEN PatternsV3
                  ELSE generatePatterns(km, d)
      out == GenLoop(v, d, patterns, rs, FirstTimeMs(v) * TimeDen, 1, id, <<>>)
  IN [notes |-> SortByStartTime(out.notes), nextId |-> out.nextId]

-----------------------------------------------------------------------------
(* Stats Accumulator: the updaters handed to setStats *)

ZeroStats == [score |-> 0, combo |-> 0, maxCombo |-> 0, perfect |-> 0, good |-> 0, miss |-> 0]

\* Faulty variant (sensitivity of the properties): the tier without its "+ 1".
ComboFactorNoBase(v, combo) == IF v = 1 THEN combo + 1 ELSE Max(1, combo \div 10)

\* Faulty variant (sensitivity of the properties): a tier that falls back after ten hits.
ComboFactorFalls(v, combo) == IF v = 1 THEN combo + 1 ELSE Max(1, 2 - (combo \div 10))

\* The combo factor of a hit: (prev.combo + 1) in variant 1, tiered in 2 and 3.
ComboFactor(v, combo) == IF v = 1 THEN combo + 1 ELSE Max(1, (combo \div 10) + 1)

PerfectUpdate(v, prev) ==
  [prev EXCEPT !.perfect = prev.perfect + 1,
               !.combo = prev.combo + 1,
               !.score = prev.score + 1000 * ComboFactor(v, prev.combo)]

GoodUpdate(v, prev) ==
  [prev EXCEPT !.good = prev.good + 1,
               !.combo = prev.combo + 1,
               !.score = prev.score + 500 * ComboFactor(v, prev.combo)]

\* Faulty variant (sensitivity of the properties): a miss that forgets to fold the combo into maxCombo.
MissUpdateKeepsMax(prev) == [prev EXCEPT !.miss = prev.miss + 1, !.combo = 0]

MissUpdate(prev) ==
  [prev EXCEPT !.miss = prev.miss + 1,
               !.combo = 0,
               !.maxCombo = Max(prev.maxCombo, prev.combo)]

RECURSIVE MissTimes(_, _)
MissTimes(n, prev) == IF n = 0 THEN prev ELSE MissTimes(n - 1, MissUpdate(prev))

\* Variant 1's effect on [stats.combo]; variants 2 and 3 have no such effect.
MaxComboEffect(v, prev, depChanged) ==
  IF v = 1 /\ depChanged
  THEN [prev EXCEPT !.maxCombo = Max(prev.maxCombo, prev.combo)]
  ELSE prev

-----------------------------------------------------------------------------
(* Motion Model *)

\* newY of gameLoop for noteTime = elapsed - startTime, in 1/PosScale px.
NewY(v, q, d, noteTime) ==
  IF v = 1 THEN Px(0 - 100) + noteTime * NOTE_SPEED * SpeedDen * DiffDen
  ELSE IF v = 3 THEN noteTime * BASE_NOTE_SPEED * q * DiffDen
  ELSE noteTime * BASE_NOTE_SPEED * q * DIFFICULTY_SETTINGS(d).speedMultiplier

\* The position update: hit notes are skipped in variants 2 and 3 only.
MoveNotes(v, q, d, el, prevNotes) ==
  [i \in DOMAIN prevNotes |->
     IF v # 1 /\ prevNotes[i].hit THEN prevNotes[i]
     ELSE [prevNotes[i] EXCEPT !.currentY = NewY(v, q, d, el - prevNotes[i].startTime)]]

\* Faulty variant (sensitivity of the properties): resolved notes dropped from the array.
MarkHitRemoves(ids, prevNotes) ==
  SelectSeq(prevNotes, LAMBDA n : n.id \notin ids)

MarkHit(ids, prevNotes) ==
  [i \in DOMAIN prevNotes |->
     IF prevNotes[i].id \in ids THEN [prevNotes[i] EXCEPT !.hit = TRUE] ELSE prevNotes[i]]

\* The notes the miss check of one tick picks from the array it iterates.
MissSweep(v, seen) ==
  {seen[i].id : i \in {j \in DOMAIN seen :
       ~seen[j].hit /\ seen[j].currentY > Px(JUDGMENT_LINE_Y + GOOD_THRESHOLD(v))}}

-----------------------------------------------------------------------------
(* Judgment Engine *)

Distance(n) == Abs(n.currentY - Px(JUDGMENT_LINE_Y))

\* notes.filter(...) of checkNoteHit (variants 2 and 3).
LaneNotes(v, lane, seen) ==
  SelectSeq(seen, LAMBDA n : /\ n.lane = lane
                             /\ ~n.hit
                             /\ n.currentY > Px(JUDGMENT_LINE_Y - GOOD_THRESHOLD(v))
                             /\ n.currentY < Px(JUDGMENT_LINE_Y + GOOD_THRESHOLD(v)))

\* Faulty variant (sensitivity of the properties): the first note of the window instead of the nearest.
ClosestNoteFirst(closest, rest) == closest

\* Faulty variant (sensitivity of the properties): a later note replaces closest when as near.
RECURSIVE ClosestNoteLast(_, _)
ClosestNoteLast(closest, rest) ==
  IF rest = <<>> THEN closest
  ELSE ClosestNoteLast(IF Distance(Head(rest)) <= Distance(closest) THEN Head(rest) ELSE closest,
                       Tail(rest))

\* laneNotes.reduce(...): a later note replaces closest only when strictly nearer.
RECURSIVE ClosestNote(_, _)
ClosestNote(closest, rest) ==
  IF rest = <<>> THEN closest
  ELSE ClosestNote(IF Distance(Head(rest)) < Distance(closest) THEN Head(rest) ELSE closest,
                   Tail(rest))

\* notes.find(...) of variant 1's checkNoteHit.
FindHitWindow(lane, seen) ==
  SelectSeq(seen, LAMBDA n : /\ n.lane = lane
                             /\ ~n.hit
                             /\ Distance(n) < Px(GOOD_THRESHOLD(1)))

\* Faulty variant (sensitivity of the properties): thresholds taken as inclusive upper bounds.
ClassifyInclusive(v, distance) ==
  IF distance <= Px(PERFECT_THRESHOLD(v)) THEN "PERFECT!"
  ELSE IF distance <= Px(GOOD_THRESHOLD(v)) THEN "GOOD"
  ELSE ""

Classify(v, distance) ==
  IF distance < Px(PERFECT_THRESHOLD(v)) THEN "PERFECT!"
  ELSE IF distance < Px(GOOD_THRESHOLD(v)) THEN "GOOD"
  ELSE ""

NoJudged ==
  [lane |-> -1, cands |-> {}, sel |-> -1, dist |-> -1, near |-> -1, text |-> "", gain |-> 0]

\* Distance of the nearest unresolved note of the lane, -1 when there is none.
NearestDistance(lane, seen) ==
  LET ds == {Distance(seen[i]) : i \in {j \in DOMAIN seen : seen[j].lane = lane /\ ~seen[j].hit}}
  IN IF ds = {} THEN -1 ELSE CHOOSE x \in ds : \A y \in ds : x <= y

\* What checkNoteHit(lane) selects from the notes of its closure and decides.
checkNoteHit(v, lane, seen) ==
  LET cs == IF v = 1 THEN FindHitWindow(lane, seen) ELSE LaneNotes(v, lane, seen)
      near == NearestDistance(lane, seen)
  IN IF cs = <<>>
     THEN [NoJudged EXCEPT !.lane = lane, !.near = near]
     ELSE LET chosen == IF v = 1 THEN Head(cs) ELSE ClosestNote(Head(cs), Tail(cs))
          IN [lane |-> lane,
              cands |-> {cs[i].id : i \in DOMAIN cs},
              sel |-> chosen.id,
              dist |-> Distance(chosen),
              near |-> near,
              text |-> Classify(v, Distance(chosen)),
              gain |-> 0]

\* Faulty variant (sensitivity of the properties): a press without a judgment counted as a miss.
HitStatsPenalizes(v, text, prev) ==
  IF text = "PERFECT!" THEN PerfectUpdate(v, prev)
  ELSE IF text = "GOOD" THEN GoodUpdate(v, prev)
  ELSE MissUpdate(prev)

\* The setStats updater checkNoteHit queues for a judgment text.
HitStats(v, text, prev) ==
  IF text = "PERFECT!" THEN PerfectUpdate(v, prev)
  ELSE IF text = "GOOD" THEN GoodUpdate(v, prev)
  ELSE prev

-----------------------------------------------------------------------------
(* Render and effects *)

\* Faulty variant (sensitivity of the properties): an effect that leaves the request pending when not playing.
LoopEffectNoCancel(depsChanged, gs, a, p) ==
  IF ~depsChanged THEN [a |-> a, p |-> p, cancelled |-> 0, requested |-> 0]
  ELSE IF gs = "playing"
       THEN [a |-> 1, p |-> TRUE, cancelled |-> IF p THEN 1 ELSE 0, requested |-> 1]
  ELSE [a |-> a, p |-> p, cancelled |-> 0, requested |-> 0]

\* Faulty variant (sensitivity of the properties): an effect without the cleanup that cancels the earlier request.
LoopEffectNoCleanup(depsChanged, gs, a, p) ==
  IF ~depsChanged THEN [a |-> a, p |-> p, cancelled |-> 0, requested |-> 0]
  ELSE IF gs = "playing" THEN [a |-> 1, p |-> TRUE, cancelled |-> 0, requested |-> 1]
  ELSE [a |-> a, p |-> FALSE, cancelled |-> IF p THEN 1 ELSE 0, requested |-> 0]

\* The game-loop effect (deps [gameState, gameLoop]): when a dependency changed
\* its cleanup cancels animationRef.current and its body requests a frame while
\* playing.  a is animationRef, p says whether that request is pending;
\* cancelled and requested count the callbacks it cancels and requests.
LoopEffect(depsChanged, gs, a, p) ==
  IF ~depsChanged THEN [a |-> a, p |-> p, cancelled |-> 0, requested |-> 0]
  ELSE IF gs = "playing"
       THEN [a |-> 1, p |-> TRUE, cancelled |-> IF p THEN 1 ELSE 0, requested |-> 1]
  ELSE [a |-> a, p |-> FALSE, cancelled |-> IF p THEN 1 ELSE 0, requested |-> 0]

\* Faulty variant (sensitivity of the properties): a render that ends the session once every note is resolved.
CommitEndsChart(gs, ns, rn, st, rc, a, p, loopChanged) ==
  LET done == gs = "playing" /\ ns # <<>> /\ \A i \in DOMAIN ns : ns[i].hit
      eff == LoopEffect(loopChanged \/ done, IF done THEN "ended" ELSE gs, a, p)
  IN /\ gameState' = IF done THEN "ended" ELSE gs
     /\ notes' = ns
     /\ stats' = MaxComboEffect(variant, st, rc # rCombo)
     /\ animationRef' = eff.a
     /\ rafPending' = eff.p
     /\ pendingFrames' = pendingFrames - (IF rafPending /\ ~p THEN 1 ELSE 0)
                          - eff.cancelled + eff.requested
     /\ rNotes' = rn
     /\ rCombo' = IF variant = 1 THEN rc ELSE rCombo

\* A render followed by its effects: gs, ns and st are the state after the
\* updates queued so far, rn and rc the notes and the combo this render shows.
Commit(gs, ns, rn, st, rc, a, p, loopChanged) ==
  LET eff == LoopEffect(loopChanged, gs, a, p)
  IN /\ gameState' = gs
     /\ notes' = ns
     /\ stats' = MaxComboEffect(variant, st, rc # rCombo)
     /\ animationRef' = eff.a
     /\ rafPending' = eff.p
     /\ pendingFrames' = pendingFrames - (IF rafPending /\ ~p THEN 1 ELSE 0)
                          - eff.cancelled + eff.requested
     /\ rNotes' = rn
     /\ rCombo' = IF variant = 1 THEN rc ELSE rCombo

\* gameLoop's identity changes with the rendered notes in variants 2 and 3
\* (deps [gameState, notes, createNoteElement, speedMultiplier, difficulty]).
NotesRebuildLoop(notesSet) == variant # 1 /\ notesSet

History(op, j, sw) ==
  /\ lastOp' = op
  /\ judged' = j
  /\ swept' = sw
  /\ afterResume' = FALSE

\* Faulty variant (sensitivity of the properties): a pause that computes the offset even when the reference is unset.
PauseOffsetUnguarded(v, start, t, prev) == IF v # 1 THEN t - start ELSE prev

\* Faulty variant (sensitivity of the properties): the pause stores the clock reading itself.
PauseOffsetClock(v, start, t, prev) == IF v # 1 /\ start # 0 THEN t ELSE prev

\* pauseTimeRef after togglePause pauses at clock reading t (variant 1 has no
\* pauseTimeRef and leaves the value alone).
PauseOffset(v, start, t, prev) == IF v # 1 /\ start # 0 THEN t - start ELSE prev

\* Faulty variant (sensitivity of the properties): a frame that fixes the reference again at every tick.
FrameStartEveryTick(v, start, ts, offset) == IF v = 1 THEN ts ELSE ts - offset

\* Faulty variant (sensitivity of the properties): a frame that restarts the clock without the pause offset.
FrameStartNoOffset(v, start, ts, offset) == IF start # 0 THEN start ELSE ts

\* startTimeRef as gameLoop leaves it for the frame timestamp ts.
FrameStart(v, start, ts, offset) ==
  IF start # 0 THEN start ELSE IF v = 1 THEN ts ELSE ts - offset

\* The keyboard as the browser reports it: keydown for a fresh press or an
\* auto-repeat of a held code, keyup only for a code that is held.  A
\* specification that does not observe the keyboard starts with Untracked.
Untracked == {"untracked"}
HeldAfterDown(code) == IF held = Untracked THEN held ELSE held \cup {code}
HeldAfterUp(code) == IF held = Untracked THEN held ELSE held \ {code}
MayRelease(code) == held = Untracked \/ code \in held

\* What gameLoop would compute as elapsed at clock reading t.
ElapsedAt(t) ==
  IF startTimeRef # 0 THEN t - startTimeRef
  ELSE IF variant = 1 THEN 0 ELSE pauseTimeRef

-----------------------------------------------------------------------------
(* Initial state *)

Init ==
  /\ variant \in {1, 2, 3}
  /\ gameState = "menu"
  /\ notes = <<>>
  /\ stats = ZeroStats
  /\ pressedKeys = {}
  /\ judgment = "none"
  /\ speedMultiplier = SpeedDen
  /\ keyMode = 4
  /\ difficulty = "normal"
  /\ startTimeRef = 0
  /\ pauseTimeRef = 0
  /\ animationRef = 0
  /\ noteIdRef = 0
  /\ rafPending = FALSE
  /\ pendingFrames = 0
  /\ timers = {}
  /\ now = 0
  /\ rNotes = <<>>
  /\ rCombo = 0
  /\ dirty = FALSE
  /\ lastOp = "init"
  /\ elapsed = 0
  /\ pausedElapsed = 0
  /\ resumed = FALSE
  /\ afterResume = FALSE
  /\ judged = NoJudged
  /\ swept = {}
  /\ mounted = TRUE
  /\ held = Untracked

-----------------------------------------------------------------------------
(* Menu selectors (rendered only while gameState is "menu") *)

\* Faulty variant (sensitivity of the properties): a speed selector rendered in every state.
SetSpeedMultiplierAnyState(q) ==
  /\ mounted
  /\ variant # 1
  /\ q # speedMultiplier
  /\ speedMultiplier' = q
  /\ Commit(gameState, notes, rNotes, stats, rCombo, animationRef, rafPending, TRUE)
  /\ History("other", NoJudged, {})
  /\ UNCHANGED <<variant, mounted, held, dirty, pressedKeys, judgment, keyMode, difficulty, startTimeRef,
                 pauseTimeRef, noteIdRef, timers, now, elapsed, pausedElapsed, resumed>>

SetSpeedMultiplier(q) ==
  /\ mounted
  /\ variant # 1
  /\ gameState = "menu"
  /\ q # speedMultiplier
  /\ speedMultiplier' = q
  /\ Commit(gameState, notes, rNotes, stats, rCombo, animationRef, rafPending, TRUE)
  /\ History("other", NoJudged, {})
  /\ UNCHANGED <<variant, mounted, held, dirty, pressedKeys, judgment, keyMode, difficulty, startTimeRef,
                 pauseTimeRef, noteIdRef, timers, now, elapsed, pausedElapsed, resumed>>

SetKeyMode(k) ==
  /\ mounted
  /\ variant = 2
  /\ gameState = "menu"
  /\ k # keyMode
  /\ keyMode' = k
  /\ Commit(gameState, notes, rNotes, stats, rCombo, animationRef, rafPending, TRUE)
  /\ History("other", NoJudged, {})
  /\ UNCHANGED <<variant, mounted, held, dirty, pressedKeys, judgment, speedMultiplier, difficulty, startTimeRef,
                 pauseTimeRef, noteIdRef, timers, now, elapsed, pausedElapsed, resumed>>

SetDifficulty(d) ==
  /\ mounted
  /\ variant = 2
  /\ gameState = "menu"
  /\ d # difficulty
  /\ difficulty' = d
  /\ Commit(gameState, notes, rNotes, stats, rCombo, animationRef, rafPending, TRUE)
  /\ History("other", NoJudged, {})
  /\ UNCHANGED <<variant, mounted, held, dirty, pressedKeys, judgment, speedMultiplier, keyMode, startTimeRef,
                 pauseTimeRef, noteIdRef, timers, now, elapsed, pausedElapsed, resumed>>

-----------------------------------------------------------------------------
(* Lifecycle commands *)

\* Faulty variant (sensitivity of the properties): a startGame without its setStats.
StartGameKeepsStats(rs) ==
  /\ mounted
  /\ gameState = "menu"
  /\ noteIdRef < MaxNoteId
  /\ LET gen == generateNotes(variant, keyMode, difficulty, rs, noteIdRef)
     IN /\ noteIdRef' = gen.nextId
        /\ Commit("playing", gen.notes, gen.notes, stats, rCombo, animationRef, rafPending, TRUE)
  /\ startTimeRef' = 0
  /\ pauseTimeRef' = 0
  /\ elapsed' = 0
  /\ pausedElapsed' = 0
  /\ resumed' = FALSE
  /\ History("startGame", NoJudged, {})
  /\ UNCHANGED <<variant, mounted, held, dirty, pressedKeys, judgment, speedMultiplier, keyMode, difficulty,
                 timers, now>>

StartGame(rs) ==
  /\ mounted
  /\ gameState = "menu"
  /\ noteIdRef < MaxNoteId
  /\ LET gen == generateNotes(variant, keyMode, difficulty, rs, noteIdRef)
     IN /\ noteIdRef' = gen.nextId
        /\ Commit("playing", gen.notes, gen.notes, ZeroStats, 0, animationRef, rafPending, TRUE)
  /\ startTimeRef' = 0
  /\ pauseTimeRef' = 0
  /\ elapsed' = 0
  /\ pausedElapsed' = 0
  /\ resumed' = FALSE
  /\ History("startGame", NoJudged, {})
  /\ UNCHANGED <<variant, mounted, held, dirty, pressedKeys, judgment, speedMultiplier, keyMode, difficulty,
                 timers, now>>

\* Faulty variant (sensitivity of the properties): a togglePause that also pauses from the menu.
PauseFromMenu ==
  /\ mounted
  /\ gameState \in {"playing", "menu"}
  /\ pauseTimeRef' = PauseOffset(variant, startTimeRef, now, pauseTimeRef)
  /\ pausedElapsed' = ElapsedAt(now)
  /\ Commit("paused", notes, rNotes, stats, rCombo, animationRef, rafPending, TRUE)
  /\ History("pause", NoJudged, {})
  /\ UNCHANGED <<variant, mounted, held, dirty, pressedKeys, judgment, speedMultiplier, keyMode, difficulty,
                 startTimeRef, noteIdRef, timers, now, elapsed, resumed>>

\* togglePause from "playing": variants 2 and 3 read performance.now() when
\* startTimeRef is set; the click comes with the clock still at now.
Pause ==
  /\ mounted
  /\ gameState = "playing"
  /\ pauseTimeRef' = PauseOffset(variant, startTimeRef, now, pauseTimeRef)
  /\ pausedElapsed' = ElapsedAt(now)
  /\ Commit("paused", notes, rNotes, stats, rCombo, animationRef, rafPending, TRUE)
  /\ History("pause", NoJudged, {})
  /\ UNCHANGED <<variant, mounted, held, dirty, pressedKeys, judgment, speedMultiplier, keyMode, difficulty,
                 startTimeRef, noteIdRef, timers, now, elapsed, resumed>>

\* togglePause from "paused".
Resume ==
  /\ mounted
  /\ gameState = "paused"
  /\ startTimeRef' = 0
  /\ resumed' = TRUE
  /\ Commit("playing", notes, rNotes, stats, rCombo, animationRef, rafPending, TRUE)
  /\ History("resume", NoJudged, {})
  /\ UNCHANGED <<variant, mounted, held, dirty, pressedKeys, judgment, speedMultiplier, keyMode, difficulty,
                 pauseTimeRef, noteIdRef, timers, now, elapsed, pausedElapsed>>

\* The pause button is rendered while playing or paused.
TogglePause == Pause \/ Resume

\* Faulty variant (sensitivity of the properties): a reset that leaves the clock reference set.
ResetGameKeepsClock ==
  /\ mounted
  /\ gameState \in {"playing", "paused"}
  /\ pauseTimeRef' = 0
  /\ elapsed' = 0
  /\ pausedElapsed' = 0
  /\ resumed' = FALSE
  /\ Commit("menu", <<>>, <<>>, stats, rCombo, animationRef, FALSE, TRUE)
  /\ History("resetGame", NoJudged, {})
  /\ UNCHANGED <<variant, mounted, held, dirty, pressedKeys, judgment, speedMultiplier, keyMode,
                 difficulty, startTimeRef, noteIdRef, timers, now>>

ResetGame ==
  /\ mounted
  /\ gameState \in {"playing", "paused"}
  /\ startTimeRef' = 0
  /\ pauseTimeRef' = 0
  /\ elapsed' = 0
  /\ pausedElapsed' = 0
  /\ resumed' = FALSE
  /\ Commit("menu", <<>>, <<>>, stats, rCombo, animationRef, FALSE, TRUE)
  /\ History("resetGame", NoJudged, {})
  /\ UNCHANGED <<variant, mounted, held, dirty, pressedKeys, judgment, speedMultiplier, keyMode, difficulty,
                 noteIdRef, timers, now>>

-----------------------------------------------------------------------------
(* Key events *)

\* Faulty variant (sensitivity of the properties): an unmapped code releases every lane.
KeyDownIgnoredClears(code) ==
  /\ mounted
  /\ held' = HeldAfterDown(code)
  /\ \/ gameState # "playing"
     \/ KEY_MODES(variant, keyMode, code) = -1
     \/ KEY_MODES(variant, keyMode, code) \in pressedKeys
  /\ pressedKeys' = IF KEY_MODES(variant, keyMode, code) = -1 THEN {} ELSE pressedKeys
  /\ History("keyDownIgnored", NoJudged, {})
  /\ UNCHANGED <<variant, mounted, gameState, notes, stats, judgment,
                 speedMultiplier, keyMode, difficulty, startTimeRef, pauseTimeRef,
                 animationRef, noteIdRef, rafPending, pendingFrames, timers, now, rNotes, rCombo, dirty,
                 elapsed, pausedElapsed, resumed>>

\* handleKeyDown returns at once unless playing, and ignores an unmapped code
\* and a lane already in pressedKeys: no state is set and nothing renders.
KeyDownIgnored(code) ==
  /\ mounted
  /\ held' = HeldAfterDown(code)
  /\ \/ gameState # "playing"
     \/ KEY_MODES(variant, keyMode, code) = -1
     \/ KEY_MODES(variant, keyMode, code) \in pressedKeys
  /\ History("keyDownIgnored", NoJudged, {})
  /\ UNCHANGED <<variant, mounted, gameState, notes, stats, pressedKeys, judgment,
                 speedMultiplier, keyMode, difficulty, startTimeRef, pauseTimeRef,
                 animationRef, noteIdRef, rafPending, pendingFrames, timers, now, rNotes, rCombo, dirty,
                 elapsed, pausedElapsed, resumed>>

\* Faulty variant (sensitivity of the properties): a handleKeyDown without its gameState check.
KeyDownPressedAnyState(code) ==
  /\ mounted
  /\ held' = HeldAfterDown(code)
  /\ KEY_MODES(variant, keyMode, code) # -1
  /\ KEY_MODES(variant, keyMode, code) \notin pressedKeys
  /\ LET lane == KEY_MODES(variant, keyMode, code)
         j == checkNoteHit(variant, lane, rNotes)
         isHit == j.sel # -1 /\ (variant = 1 \/ j.text # "")
     IN /\ pressedKeys' = pressedKeys \cup {lane}
        /\ judgment' = IF isHit THEN j.text ELSE judgment
        /\ timers' = IF isHit THEN timers \cup {now + JUDGMENT_MS * TimeDen} ELSE timers
        /\ Commit(gameState,
                  IF isHit THEN MarkHit({j.sel}, notes) ELSE notes,
                  IF isHit THEN MarkHit({j.sel}, rNotes) ELSE rNotes,
                  HitStats(variant, j.text, stats),
                  IF isHit THEN rCombo + 1 ELSE rCombo,
                  animationRef, rafPending, NotesRebuildLoop(isHit))
        /\ History("keyDown",
                   [j EXCEPT !.gain = HitStats(variant, j.text, stats).score - stats.score], {})
  /\ UNCHANGED <<variant, mounted, dirty, speedMultiplier, keyMode, difficulty, startTimeRef,
                 pauseTimeRef, noteIdRef, now, elapsed, pausedElapsed, resumed>>

\* Faulty variant (sensitivity of the properties): a handleKeyDown without its pressedKeys check.
KeyDownPressedRepeats(code) ==
  /\ mounted
  /\ held' = HeldAfterDown(code)
  /\ gameState = "playing"
  /\ KEY_MODES(variant, keyMode, code) # -1
  /\ LET lane == KEY_MODES(variant, keyMode, code)
         j == checkNoteHit(variant, lane, rNotes)
         isHit == j.sel # -1 /\ (variant = 1 \/ j.text # "")
     IN /\ pressedKeys' = pressedKeys \cup {lane}
        /\ judgment' = IF isHit THEN j.text ELSE judgment
        /\ timers' = IF isHit THEN timers \cup {now + JUDGMENT_MS * TimeDen} ELSE timers
        /\ Commit(gameState,
                  IF isHit THEN MarkHit({j.sel}, notes) ELSE notes,
                  IF isHit THEN MarkHit({j.sel}, rNotes) ELSE rNotes,
                  HitStats(variant, j.text, stats),
                  IF isHit THEN rCombo + 1 ELSE rCombo,
                  animationRef, rafPending, NotesRebuildLoop(isHit))
        /\ History("keyDown",
                   [j EXCEPT !.gain = HitStats(variant, j.text, stats).score - stats.score], {})
  /\ UNCHANGED <<variant, mounted, dirty, speedMultiplier, keyMode, difficulty, startTimeRef,
                 pauseTimeRef, noteIdRef, now, elapsed, pausedElapsed, resumed>>

\* handleKeyDown on a mapped, unpressed lane: setPressedKeys and checkNoteHit,
\* which judges the notes of its closure (rNotes) and queues its updaters.
KeyDownPressed(code) ==
  /\ mounted
  /\ held' = HeldAfterDown(code)
  /\ gameState = "playing"
  /\ KEY_MODES(variant, keyMode, code) # -1
  /\ KEY_MODES(variant, keyMode, code) \notin pressedKeys
  /\ LET lane == KEY_MODES(variant, keyMode, code)
         j == checkNoteHit(variant, lane, rNotes)
         isHit == j.sel # -1 /\ (variant = 1 \/ j.text # "")
     IN /\ pressedKeys' = pressedKeys \cup {lane}
        /\ judgment' = IF isHit THEN j.text ELSE judgment
        /\ timers' = IF isHit THEN timers \cup {now + JUDGMENT_MS * TimeDen} ELSE timers
        /\ Commit(gameState,
                  IF isHit THEN MarkHit({j.sel}, notes) ELSE notes,
                  IF isHit THEN MarkHit({j.sel}, rNotes) ELSE rNotes,
                  HitStats(variant, j.text, stats),
                  IF isHit THEN rCombo + 1 ELSE rCombo,
                  animationRef, rafPending, NotesRebuildLoop(isHit))
        /\ History("keyDown",
                   [j EXCEPT !.gain = HitStats(variant, j.text, stats).score - stats.score], {})
  /\ UNCHANGED <<variant, mounted, dirty, speedMultiplier, keyMode, difficulty, startTimeRef, pauseTimeRef,
                 noteIdRef, now, elapsed, pausedElapsed, resumed>>

KeyDown(code) == KeyDownIgnored(code) \/ KeyDownPressed(code)

\* handleKeyUp: registered in every game state; deletes the lane of a mapped
\* code.  The browser sends keyup for a code that was held.
KeyUp(code) ==
  /\ mounted
  /\ MayRelease(code)
  /\ held' = HeldAfterUp(code)
  /\ IF KEY_MODES(variant, keyMode, code) = -1
     THEN /\ History("keyUp", NoJudged, {})
          /\ UNCHANGED <<variant, mounted, gameState, notes, stats, pressedKeys, judgment,
                         speedMultiplier, keyMode, difficulty, startTimeRef, pauseTimeRef,
                         animationRef, noteIdRef, rafPending, pendingFrames, timers, now, rNotes, rCombo,
                         dirty, elapsed, pausedElapsed, resumed>>
     ELSE /\ pressedKeys' = pressedKeys \ {KEY_MODES(variant, keyMode, code)}
       /\ Commit(gameState, notes, rNotes, stats, rCombo, animationRef, rafPending,
                 NotesRebuildLoop(FALSE))
       /\ History("keyUp", NoJudged, {})
       /\ UNCHANGED <<variant, mounted, dirty, judgment, speedMultiplier, keyMode, difficulty, startTimeRef,
                      pauseTimeRef, noteIdRef, timers, now, elapsed, pausedElapsed, resumed>>

\* setTimeout(() => setJudgment(null), 500) firing once its delay has passed.
JudgmentTimeout(due) ==
  /\ due \in timers
  /\ now >= due
  /\ timers' = timers \ {due}
  /\ judgment' = IF mounted THEN "none" ELSE judgment
  /\ History("other", NoJudged, {})
  /\ UNCHANGED <<variant, mounted, held, gameState, notes, stats, pressedKeys, speedMultiplier, keyMode,
                 difficulty, startTimeRef, pauseTimeRef, animationRef, noteIdRef, rafPending, pendingFrames,
                 now, rNotes, rCombo, dirty, elapsed, pausedElapsed, resumed>>

-----------------------------------------------------------------------------
(* Frame Scheduler *)

\* One run of the pending gameLoop callback with timestamp ts, later than
\* the one of the frame before.  Its
\* closure holds the gameState, speedMultiplier and difficulty of the last
\* render (equal to the state: only discrete events set them) and, in variants
\* 2 and 3, the notes of the last render (rNotes), which the miss check iterates.
\* Variant 1 runs its miss check inside a setNotes updater, on the moved notes.
Tick(ts) ==
  /\ mounted
  /\ rafPending
  /\ ts > now
  /\ now' = ts
  /\ LET start == FrameStart(variant, startTimeRef, ts, pauseTimeRef)
         el == ts - start
         moved == MoveNotes(variant, speedMultiplier, difficulty, el, notes)
         missed == IF variant = 1 THEN MissSweep(variant, moved) ELSE MissSweep(variant, rNotes)
     IN /\ stats.miss + Cardinality(missed) <= MaxMiss
        /\ startTimeRef' = start
        /\ elapsed' = el
        /\ notes' = MarkHit(missed, moved)
        /\ stats' = MissTimes(Cardinality(missed), stats)
        /\ swept' = missed
  /\ animationRef' = IF gameState = "playing" THEN 1 ELSE animationRef
  /\ rafPending' = (gameState = "playing")
  /\ pendingFrames' = pendingFrames - 1 + (IF gameState = "playing" THEN 1 ELSE 0)
  /\ dirty' = TRUE
  /\ afterResume' = resumed
  /\ resumed' = FALSE
  /\ lastOp' = "tick"
  /\ judged' = NoJudged
  /\ UNCHANGED <<variant, mounted, held, gameState, pressedKeys, judgment, speedMultiplier, keyMode,
                 difficulty, pauseTimeRef, noteIdRef, timers, rNotes, rCombo, pausedElapsed>>

\* React renders the updates a frame callback queued and flushes the effects.
Render ==
  /\ mounted
  /\ dirty
  /\ Commit(gameState, notes, notes, stats, stats.combo, animationRef, rafPending,
            NotesRebuildLoop(TRUE))
  /\ dirty' = FALSE
  /\ History("other", NoJudged, {})
  /\ UNCHANGED <<variant, mounted, held, pressedKeys, judgment, speedMultiplier, keyMode, difficulty,
                 startTimeRef, pauseTimeRef, noteIdRef, timers, now, elapsed, pausedElapsed,
                 resumed>>

\* The component is torn down: the cleanup of the game-loop effect cancels
\* animationRef.current and the cleanup of the listener effect removes the key
\* listeners; updates not yet rendered are dropped.  The setTimeout timers of
\* checkNoteHit are not cleared.
Unmount ==
  /\ mounted
  /\ mounted' = FALSE
  /\ rafPending' = FALSE
  /\ pendingFrames' = pendingFrames - (IF rafPending THEN 1 ELSE 0)
  /\ dirty' = FALSE
  /\ History("unmount", NoJudged, {})
  /\ UNCHANGED <<variant, held, gameState, notes, stats, pressedKeys, judgment, speedMultiplier,
                 keyMode, difficulty, startTimeRef, pauseTimeRef, animationRef, noteIdRef,
                 timers, now, rNotes, rCombo, elapsed, pausedElapsed, resumed>>

-----------------------------------------------------------------------------
(* Specification *)

Next ==
  \/ \E q \in SpeedChoices : SetSpeedMultiplier(q)
  \/ \E k \in KeyModeChoices : SetKeyMode(k)
  \/ \E d \in DifficultyChoices : SetDifficulty(d)
  \/ \E rs \in [1..MaxRandomCalls -> RandomValues] : StartGame(rs)
  \/ TogglePause
  \/ ResetGame
  \/ \E code \in KeyCodes : KeyDown(code)
  \/ \E code \in KeyCodes : KeyUp(code)
  \/ \E due \in timers : JudgmentTimeout(due)
  \/ \E ts \in Instants : Tick(ts)
  \/ Render
  \/ Unmount

Spec == Init /\ [][Next]_vars

-----------------------------------------------------------------------------
(* The stats updaters on their own: any sequence of hits and misses of one   *)
(* session, long enough for the combo to reach the second tier.              *)

\* Hits applied in one run.
MaxHits == 11

ScoreHit(text) ==
  /\ stats.perfect + stats.good < MaxHits
  /\ stats' = HitStats(variant, text, stats)
  /\ lastOp' = "keyDown"
  /\ judged' = [NoJudged EXCEPT !.text = text,
                                !.gain = HitStats(variant, text, stats).score - stats.score]
  /\ UNCHANGED <<variant, mounted, held, gameState, notes, pressedKeys, judgment, speedMultiplier, keyMode,
                 difficulty, startTimeRef, pauseTimeRef, animationRef, noteIdRef, rafPending, pendingFrames,
                 timers, now, rNotes, rCombo, dirty, elapsed, pausedElapsed, resumed,
                 afterResume, swept>>

ScoreMiss ==
  /\ stats.miss < MaxMiss
  /\ stats' = MissUpdate(stats)
  /\ lastOp' = "tick"
  /\ judged' = NoJudged
  /\ UNCHANGED <<variant, mounted, held, gameState, notes, pressedKeys, judgment, speedMultiplier, keyMode,
                 difficulty, startTimeRef, pauseTimeRef, animationRef, noteIdRef, rafPending, pendingFrames,
                 timers, now, rNotes, rCombo, dirty, elapsed, pausedElapsed, resumed,
                 afterResume, swept>>

NextStats ==
  \/ \E text \in {"PERFECT!", "GOOD"} : ScoreHit(text)
  \/ ScoreMiss

SpecStats == Init /\ [][NextStats]_vars

-----------------------------------------------------------------------------
(* generateNotes on its own: startGame from the menu, for every key mode and *)
(* difficulty the selectors offer and a tape of Math.random() results that   *)
(* reaches singles, pairs, triples and quads.                                *)

InitChart ==
  /\ variant \in {1, 2, 3}
  /\ gameState = "menu"
  /\ notes = <<>>
  /\ stats = ZeroStats
  /\ pressedKeys = {}
  /\ judgment = "none"
  /\ speedMultiplier = SpeedDen
  /\ keyMode \in (IF variant = 2 THEN ChartKeyModes ELSE {4})
  /\ difficulty \in (IF variant = 2 THEN ChartDifficulties ELSE {"normal"})
  /\ startTimeRef = 0
  /\ pauseTimeRef = 0
  /\ animationRef = 0
  /\ noteIdRef = 0
  /\ rafPending = FALSE
  /\ pendingFrames = 0
  /\ timers = {}
  /\ now = 0
  /\ rNotes = <<>>
  /\ rCombo = 0
  /\ dirty = FALSE
  /\ lastOp = "init"
  /\ elapsed = 0
  /\ pausedElapsed = 0
  /\ resumed = FALSE
  /\ afterResume = FALSE
  /\ judged = NoJudged
  /\ swept = {}
  /\ mounted = TRUE
  /\ held = Untracked

NextChart == \E rs \in [1..ChartRandomCalls -> ChartRandomValues] : StartGame(rs)

SpecChart == InitChart /\ [][NextChart]_vars

-----------------------------------------------------------------------------
(* The key handlers with the keyboard observed: the second variant at its    *)
(* default difficulty and speed, with the codes of HeldKeyCodes, the         *)
(* key-mode selector, the lifecycle commands and the frames.  The label       *)
(* timeouts are left pending: no key handler reads the label.                *)

InitKeys ==
  /\ variant = 2
  /\ gameState = "menu"
  /\ notes = <<>>
  /\ stats = ZeroStats
  /\ pressedKeys = {}
  /\ judgment = "none"
  /\ speedMultiplier = SpeedDen
  /\ keyMode = 4
  /\ difficulty = "normal"
  /\ startTimeRef = 0
  /\ pauseTimeRef = 0
  /\ animationRef = 0
  /\ noteIdRef = 0
  /\ rafPending = FALSE
  /\ pendingFrames = 0
  /\ timers = {}
  /\ now = 0
  /\ rNotes = <<>>
  /\ rCombo = 0
  /\ dirty = FALSE
  /\ lastOp = "init"
  /\ elapsed = 0
  /\ pausedElapsed = 0
  /\ resumed = FALSE
  /\ afterResume = FALSE
  /\ judged = NoJudged
  /\ swept = {}
  /\ mounted = TRUE
  /\ held = {}

NextKeys ==
  \/ \E k \in KeyModeChoices : SetKeyMode(k)
  \/ \E rs \in [1..MaxRandomCalls -> RandomValues] : StartGame(rs)
  \/ TogglePause
  \/ ResetGame
  \/ \E code \in HeldKeyCodes : KeyDown(code)
  \/ \E code \in HeldKeyCodes : KeyUp(code)
  \/ \E ts \in Instants : Tick(ts)
  \/ Render

SpecKeys == InitKeys /\ [][NextKeys]_vars

-----------------------------------------------------------------------------
(* Claims *)

\* C1: in variant 2 the first gameLoop tick after a resume computes the
\* elapsed time the session had at the moment of the matching pause, whatever
\* the number of pause/resume cycles and however long the pause lasted.
C1_ResumeKeepsElapsed ==
  (variant = 2 /\ lastOp = "tick" /\ afterResume) => elapsed = pausedElapsed

\* A first tick after a resume, in a session that had run before the pause
\* and whose pause lasted: the frame clock restarted later than its origin.
C1_Witness ==
  /\ variant = 2 /\ lastOp = "tick" /\ afterResume
  /\ elapsed > 0 /\ startTimeRef > TimeOrigin

\* C2: in the variants with pauseTimeRef every elapsed value a tick computes
\* is >= 0 and >= the elapsed value of the previous tick of the session.
C2_ElapsedMonotone ==
  [][(variant # 1 /\ lastOp' = "tick") => (elapsed' >= 0 /\ elapsed' >= elapsed)]_vars

\* A later tick of a session that was paused and resumed after it had run.
C2_Witness ==
  /\ variant = 2 /\ lastOp = "tick" /\ ~afterResume
  /\ elapsed > pauseTimeRef /\ pauseTimeRef > 0 /\ startTimeRef > TimeOrigin

\* C3: in variant 2 a keyDown that selects a note at distance d judges it
\* PERFECT exactly when d < PERFECT_THRESHOLD and GOOD exactly when
\* PERFECT_THRESHOLD <= d < GOOD_THRESHOLD; when the nearest unresolved note
\* of the lane is at d >= GOOD_THRESHOLD nothing is judged and the notes, the
\* stats and the label stay as they were.
C3_Thresholds ==
  [][(variant = 2 /\ lastOp' = "keyDown") =>
       LET j == judged'
       IN /\ j.sel # -1 =>
               /\ j.text \in {"PERFECT!", "GOOD"}
               /\ (j.text = "PERFECT!") <=> (j.dist < Px(PERFECT_THRESHOLD(2)))
               /\ (j.text = "GOOD") <=> /\ j.dist >= Px(PERFECT_THRESHOLD(2))
                                        /\ j.dist < Px(GOOD_THRESHOLD(2))
          /\ (j.near = -1 \/ j.near >= Px(GOOD_THRESHOLD(2))) =>
               /\ j.sel = -1 /\ j.text = ""
               /\ notes' = notes /\ stats' = stats /\ judgment' = judgment]_vars

\* A keyDown judged a note that stood at exactly PERFECT_THRESHOLD: GOOD.
C3_Witness ==
  /\ variant = 2 /\ lastOp = "keyDown"
  /\ judged.dist = Px(PERFECT_THRESHOLD(2)) /\ judged.text = "GOOD"

\* C4: in variant 2, when two or more unresolved notes of the pressed lane
\* stand within the good window, one keyDown sets the hit flag of exactly one
\* note, one of minimum distance to the judgment line, and leaves the hit flag
\* of every other note as it was.
C4_NearestOnly ==
  [][(variant = 2 /\ lastOp' = "keyDown") =>
       LET W == {i \in DOMAIN rNotes : /\ rNotes[i].lane = judged'.lane
                                       /\ ~rNotes[i].hit
                                       /\ Distance(rNotes[i]) < Px(GOOD_THRESHOLD(2))}
       IN Cardinality(W) >= 2 =>
            \E i \in W :
              /\ \A k \in W : Distance(rNotes[i]) <= Distance(rNotes[k])
              /\ ~notes[i].hit /\ notes'[i].hit
              /\ \A k \in DOMAIN notes \ {i} : notes'[k].hit = notes[k].hit]_vars

\* A keyDown had two candidates in the window and took the later, nearer one.
C4_Witness ==
  /\ variant = 2 /\ lastOp = "keyDown"
  /\ Cardinality(judged.cands) >= 2
  /\ \E i \in DOMAIN notes : notes[i].id = judged.sel /\ i > 1 /\ notes[i].hit /\ ~notes[1].hit

\* C5: in variants 2 and 3 a classified hit adds base * max(1, floor(combo / 10) + 1)
\* to score, base 1000 for PERFECT and 500 for GOOD and combo the value before
\* the hit, adds 1 to combo and 1 to the matching counter, and leaves the
\* other counters alone.
C5_HitScoring ==
  [][(variant # 1 /\ lastOp' = "keyDown") =>
       LET base == IF judged'.text = "PERFECT!" THEN 1000 ELSE 500
           tier == IF stats.combo \div 10 + 1 >= 1 THEN stats.combo \div 10 + 1 ELSE 1
       IN /\ stats'.score = stats.score + base * tier
          /\ stats'.combo = stats.combo + 1
          /\ stats'.perfect = stats.perfect + (IF judged'.text = "PERFECT!" THEN 1 ELSE 0)
          /\ stats'.good = stats.good + (IF judged'.text = "GOOD" THEN 1 ELSE 0)
          /\ stats'.miss = stats.miss
          /\ stats'.maxCombo = stats.maxCombo]_vars

\* Eleven PERFECTs in a row: ten at 1000 and the eleventh at 2000.
C5_Witness ==
  /\ variant = 2 /\ lastOp = "keyDown" /\ judged.text = "PERFECT!"
  /\ stats.perfect = 11 /\ stats.combo = 11 /\ stats.score = 12000

\* C6: a tick whose sweep counts k >= 1 misses leaves combo at 0, miss k
\* higher and maxCombo at max(maxCombo before, combo before), the hit counters
\* and the score as they were.
C6_MissResetsCombo ==
  [][(lastOp' = "tick" /\ swept' # {}) =>
       /\ stats'.combo = 0
       /\ stats'.miss = stats.miss + Cardinality(swept')
       /\ stats'.maxCombo = Max(stats.maxCombo, stats.combo)
       /\ stats'.score = stats.score
       /\ stats'.perfect = stats.perfect
       /\ stats'.good = stats.good]_vars

\* The first misses of a session, counted while a combo was running.
C6_Witness ==
  /\ lastOp = "tick" /\ swept # {}
  /\ stats.miss = Cardinality(swept) /\ stats.combo = 0 /\ stats.maxCombo > 0

\* C7: in variants 2 and 3 stats.maxCombo is the largest value stats.combo
\* took since startGame, so maxCombo >= combo in every state.
C7_MaxComboCoversCombo ==
  variant \in {2, 3} => stats.maxCombo >= stats.combo

\* C8: no note is counted twice: while a session's notes exist, in variant 2,
\* perfect + good + miss is the number of notes whose hit flag is true.
C8_CountedOnce ==
  (variant = 2 /\ gameState # "menu") =>
     stats.perfect + stats.good + stats.miss
       = Cardinality({i \in DOMAIN notes : notes[i].hit})

\* C9: in variant 2, once a note's hit flag is true, no step of the session
\* clears the flag or changes the note's currentY, and no keyDown and no miss
\* sweep selects the note again.
C9_ResolvedIsFinal ==
  [][variant = 2 =>
       \A i \in DOMAIN notes :
         (notes[i].hit /\ i \in DOMAIN notes' /\ notes'[i].id = notes[i].id) =>
            /\ notes'[i] = notes[i]
            /\ notes[i].id \notin swept'
            /\ notes[i].id # judged'.sel]_vars

\* C10: the miss check of a tick runs on the positions that tick computed:
\* after a tick no unresolved note stands past the miss line.
C10_SweepUsesTickPositions ==
  lastOp = "tick" =>
     \A i \in DOMAIN notes :
       ~notes[i].hit => notes[i].currentY <= Px(JUDGMENT_LINE_Y + GOOD_THRESHOLD(variant))

\* C11: a gameLoop tick runs only while the component is mounted and the state
\* is playing; whenever the state is paused, menu or ended, or the component is
\* torn down, no frame request is pending, and no step taken while paused
\* changes a note or a stats field.
C11_NoTickUnlessPlaying ==
  [][/\ lastOp' = "tick" => (gameState = "playing" /\ mounted)
     /\ (gameState' # "playing" \/ ~mounted') => ~rafPending'
     /\ (gameState = "paused" /\ gameState' = "paused") =>
          (notes' = notes /\ stats' = stats)]_vars

\* Paused with a frame request id still in animationRef and the last render
\* showing an unresolved note past the miss line: a tick would count it.
C11_Witness ==
  /\ gameState = "paused" /\ animationRef = 1 /\ ~rafPending /\ ~dirty
  /\ lastOp \in {"other", "keyDownIgnored", "keyUp"}
  /\ \E i \in DOMAIN rNotes :
       ~rNotes[i].hit /\ rNotes[i].currentY > Px(JUDGMENT_LINE_Y + GOOD_THRESHOLD(variant))

\* C12: resetGame leaves the state menu, the note list empty, startTimeRef and
\* pauseTimeRef 0 and no frame request pending; from then until the next
\* startGame no step (a timer firing, a render, a key event) changes stats.
C12_ResetStopsCallbacks ==
  [][/\ lastOp' = "resetGame" =>
          /\ gameState' = "menu" /\ notes' = <<>>
          /\ startTimeRef' = 0 /\ pauseTimeRef' = 0 /\ ~rafPending'
     /\ (gameState = "menu" /\ lastOp' # "startGame") => stats' = stats
     /\ (gameState = "menu" /\ gameState' = "menu") => lastOp' # "tick"]_vars

\* Right after a reset of a session that had scored a hit, with that hit's
\* timer due and updates of the last frame not yet rendered.
C12_Witness ==
  /\ lastOp = "resetGame" /\ dirty /\ animationRef = 1
  /\ stats.perfect + stats.good > 0
  /\ \E due \in timers : now >= due

\* C13: a note that is never hit is resolved by the miss sweep with one miss
\* counted for it: in variant 2 a single-note chart played without a key press
\* has, once its note is resolved, miss = 1 and combo = 0.
C13_UnhitNoteMissedOnce ==
  (variant = 2 /\ Len(notes) = 1 /\ notes[1].hit /\ stats.perfect + stats.good = 0) =>
     (stats.miss = 1 /\ stats.combo = 0)

\* C14: a keyDown that arrives while the state is not playing changes neither
\* stats, nor any note, nor pressedKeys.
C14_InputOnlyWhilePlaying ==
  [][(lastOp' \in {"keyDown", "keyDownIgnored"} /\ gameState # "playing") =>
       (stats' = stats /\ notes' = notes /\ pressedKeys' = pressedKeys)]_vars

\* A keyDown arrived while paused, with an unresolved note of a mapped,
\* unpressed lane inside the window of the last render.
C14_Witness ==
  /\ lastOp = "keyDownIgnored" /\ gameState = "paused"
  /\ \E code \in KeyCodes :
       /\ KEY_MODES(variant, keyMode, code) # -1
       /\ KEY_MODES(variant, keyMode, code) \notin pressedKeys
       /\ checkNoteHit(variant, KEY_MODES(variant, keyMode, code), rNotes).text # ""

\* C15: a keyDown on a mapped lane that finds no unresolved note of that lane
\* within GOOD_THRESHOLD of the judgment line changes no stats field and no
\* note and sets no judgment label (and starts no label timer).
C15_UnmatchedPressIgnored ==
  [][(lastOp' = "keyDown" /\ judged'.lane # -1
        /\ (judged'.near = -1 \/ judged'.near >= Px(GOOD_THRESHOLD(variant)))) =>
       (stats' = stats /\ notes' = notes /\ judgment' = judgment /\ timers' = timers)]_vars

\* A press that found the nearest unresolved note of its lane exactly
\* GOOD_THRESHOLD away from the line.
C15_Witness ==
  /\ lastOp = "keyDown" /\ judged.lane # -1 /\ judged.sel = -1
  /\ judged.near = Px(GOOD_THRESHOLD(variant))
  /\ judged.lane \in pressedKeys

\* C16: a keyDown or keyUp whose code is not in the key table of the active key
\* mode changes no state: stats, notes, pressedKeys, the label, the game state,
\* the clock references and the frame request all stay as they were.
C16_UnmappedKeyIgnored ==
  [][\A code \in KeyCodes :
       (KEY_MODES(variant, keyMode, code) = -1 /\ (KeyDown(code) \/ KeyUp(code))) =>
          UNCHANGED <<stats, notes, pressedKeys, judgment, gameState, startTimeRef,
                      pauseTimeRef, animationRef, rafPending, timers, rNotes, now>>]_vars

\* A keyDown was ignored while playing with no lane pressed and the clock
\* running: its code was not in the key table.
C16_Witness ==
  /\ lastOp = "keyDownIgnored" /\ gameState = "playing" /\ pressedKeys = {}
  /\ startTimeRef # 0 /\ rafPending
  /\ \E code \in KeyCodes : KEY_MODES(variant, keyMode, code) = -1

\* C17: in variant 2, when the smallest distance to the judgment line is shared
\* by two unresolved notes of the pressed lane inside the good window, the
\* keyDown resolves the one of them with the smaller startTime and leaves the
\* other unresolved.
C17_TieTakesEarlier ==
  [][(variant = 2 /\ lastOp' = "keyDown" /\ judged'.sel # -1) =>
       LET M == {i \in DOMAIN rNotes : /\ rNotes[i].id \in judged'.cands
                                       /\ Distance(rNotes[i]) = judged'.dist}
       IN Cardinality(M) >= 2 =>
            \E i \in M :
              /\ rNotes[i].id = judged'.sel
              /\ \A k \in M \ {i} : rNotes[i].startTime < rNotes[k].startTime
              /\ notes'[i].hit
              /\ \A k \in M \ {i} : ~notes'[k].hit]_vars

\* A keyDown judged two notes of its lane, one as far below the line as the
\* other was above it, and resolved the one scheduled earlier.
C17_Witness ==
  /\ variant = 2 /\ lastOp = "keyDown"
  /\ \E i, k \in DOMAIN rNotes :
       /\ {rNotes[i].id, rNotes[k].id} \subseteq judged.cands
       /\ rNotes[i].startTime < rNotes[k].startTime
       /\ rNotes[i].currentY > Px(JUDGMENT_LINE_Y)
       /\ rNotes[i].currentY - Px(JUDGMENT_LINE_Y) = Px(JUDGMENT_LINE_Y) - rNotes[k].currentY
       /\ judged.sel = rNotes[i].id
       /\ rNotes[i].hit /\ ~rNotes[k].hit

\* C18: every classified hit raises the score, a PERFECT that directly follows
\* a PERFECT adds at least as much as that one did, and no hit or miss lowers
\* the score.
C18_ScoreMonotone ==
  [][/\ stats'.score >= stats.score
     /\ lastOp' = "keyDown" =>
          /\ stats'.score > stats.score
          /\ (lastOp = "keyDown" /\ judged.text = "PERFECT!" /\ judged'.text = "PERFECT!") =>
                stats'.score - stats.score >= judged.gain]_vars

\* The PERFECT that opened the second tier: it added 2000 after ten that added
\* 1000 each, with no miss in between.
C18_Witness ==
  /\ variant = 3 /\ lastOp = "keyDown" /\ judged.text = "PERFECT!"
  /\ judged.gain = 2000 /\ stats.good = 0 /\ stats.miss = 0 /\ stats.score = 12000

\* C19: right after resetGame every stats field is 0 (variant 2).
C19_StatsZeroAfterReset ==
  (variant = 2 /\ lastOp = "resetGame") => stats = ZeroStats

\* C20: togglePause, keyUp, a keyDown that is ignored or finds no note to
\* judge, and a tick during which no unresolved note stands past
\* JUDGMENT_LINE_Y + GOOD_THRESHOLD leave every stats field unchanged; a hit
\* leaves miss unchanged and a tick leaves score, perfect and good unchanged.
C20_StatsOnlyByHitOrMiss ==
  [][/\ lastOp' \in {"pause", "resume", "keyUp", "keyDownIgnored"} => stats' = stats
     /\ (lastOp' = "keyDown" /\ judged'.text = "") => stats' = stats
     /\ (lastOp' = "tick"
          /\ \A i \in DOMAIN notes :
               \/ notes[i].hit
               \/ /\ notes[i].currentY <= Px(JUDGMENT_LINE_Y + GOOD_THRESHOLD(variant))
                  /\ notes'[i].currentY <= Px(JUDGMENT_LINE_Y + GOOD_THRESHOLD(variant)))
          => stats' = stats
     /\ lastOp' = "keyDown" => stats'.miss = stats.miss
     /\ lastOp' = "tick" =>
          /\ stats'.score = stats.score
          /\ stats'.perfect = stats.perfect
          /\ stats'.good = stats.good]_vars

\* C21: the chart startGame installs is ordered by non-decreasing startTime,
\* for every key mode and difficulty.
C21_ChartSorted ==
  lastOp = "startGame" =>
     \A i \in 1..(Len(notes) - 1) : notes[i].startTime <= notes[i + 1].startTime

\* An 8-key hard chart of three patterns, the first of them a chord.
C21_Witness ==
  /\ lastOp = "startGame" /\ variant = 2 /\ keyMode = 8 /\ difficulty = "hard"
  /\ Len(notes) >= 4
  /\ notes[1].startTime = notes[2].startTime
  /\ Cardinality({notes[i].startTime : i \in DOMAIN notes}) = 3

\* C22: every note of the chart startGame installs has a lane in
\* 0 .. laneCount - 1, laneCount being the key mode (4 in variants 1 and 3).
C22_LanesInRange ==
  lastOp = "startGame" =>
     \A i \in DOMAIN notes :
        notes[i].lane \in 0..((IF variant = 2 THEN keyMode ELSE 4) - 1)

\* A 6-key chart with a triple that reaches the last lane.
C22_Witness ==
  /\ lastOp = "startGame" /\ variant = 2 /\ keyMode = 6
  /\ \E i \in DOMAIN notes :
       /\ notes[i].lane = 5
       /\ Cardinality({k \in DOMAIN notes : notes[k].startTime = notes[i].startTime}) = 3

\* C23: in the second variant the number of notes sharing one scheduled time
\* is exactly 1 on easy, at most 2 on normal, and on hard at most 2 with 4
\* lanes, 3 with 6 lanes and 4 with 8 lanes.
C23_PatternRichnessGated ==
  (lastOp = "startGame" /\ variant = 2) =>
     \A i \in DOMAIN notes :
        LET together == Cardinality({k \in DOMAIN notes : notes[k].startTime = notes[i].startTime})
        IN CASE difficulty = "easy" -> together = 1
             [] difficulty = "normal" -> together <= 2
             [] difficulty = "hard" ->
                  together <= (IF keyMode = 4 THEN 2 ELSE IF keyMode = 6 THEN 3 ELSE 4)

\* An 8-key hard chart holding a quad next to a single note.
C23_Witness ==
  /\ lastOp = "startGame" /\ variant = 2 /\ keyMode = 8 /\ difficulty = "hard"
  /\ \E i, j \in DOMAIN notes :
       /\ Cardinality({k \in DOMAIN notes : notes[k].startTime = notes[i].startTime}) = 4
       /\ Cardinality({k \in DOMAIN notes : notes[k].startTime = notes[j].startTime}) = 1

\* C24: in variant 1 the first gameLoop tick after a resume computes an
\* elapsed value not smaller than the one of the last tick before the pause.
C24_ResumeKeepsElapsedV1 ==
  [][(variant = 1 /\ lastOp' = "tick" /\ afterResume') => elapsed' >= elapsed]_vars

\* C25: in variant 1, when two or more unresolved notes of the pressed lane
\* stand within the good window, one keyDown sets the hit flag of a note of
\* minimum distance to the judgment line and leaves every other note as it was.
C25_NearestOnlyV1 ==
  [][(variant = 1 /\ lastOp' = "keyDown") =>
       LET W == {i \in DOMAIN rNotes : /\ rNotes[i].lane = judged'.lane
                                       /\ ~rNotes[i].hit
                                       /\ Distance(rNotes[i]) < Px(GOOD_THRESHOLD(1))}
       IN Cardinality(W) >= 2 =>
            \E i \in W :
              /\ \A k \in W : Distance(rNotes[i]) <= Distance(rNotes[k])
              /\ ~notes[i].hit /\ notes'[i].hit
              /\ \A k \in DOMAIN notes \ {i} : notes'[k].hit = notes[k].hit]_vars

\* C26: a judgment label is cleared only once its own 500 ms have passed: at
\* a step that clears the label no setTimeout of a hit is still short of its
\* due time (the label on display belongs to the latest hit, whose timeout is
\* the latest one pending).
C26_LabelKeptForItsDuration ==
  [][(judgment # "none" /\ judgment' = "none") => \A due \in timers : due <= now]_vars

\* C27: keyMode, difficulty and speedMultiplier change only in a step taken
\* in the menu; while a session stays playing or paused its chart keeps the
\* ids, lanes and scheduled times it was generated with.
C27_SettingsFixedInSession ==
  [][/\ (keyMode' # keyMode \/ difficulty' # difficulty \/ speedMultiplier' # speedMultiplier)
          => (gameState = "menu" /\ gameState' = "menu")
     /\ (gameState \in {"playing", "paused"} /\ gameState' \in {"playing", "paused"})
          => /\ Len(notes') = Len(notes)
             /\ \A i \in DOMAIN notes :
                  /\ notes'[i].id = notes[i].id
                  /\ notes'[i].lane = notes[i].lane
                  /\ notes'[i].startTime = notes[i].startTime]_vars

\* A paused session that has run, started with every setting off its default.
C27_Witness ==
  /\ variant = 2 /\ gameState = "paused" /\ elapsed > 0 /\ pauseTimeRef > 0
  /\ keyMode = 6 /\ difficulty = "hard" /\ speedMultiplier = 8

\* C28: whatever happened before, startGame leaves gameState "playing",
\* every stats field 0, startTimeRef and pauseTimeRef 0 and a chart whose
\* notes are all unhit, at the spawn position and none of them a note that
\* was in the state before (their ids are new).
C28_StartGameFresh ==
  [][lastOp' = "startGame" =>
       /\ gameState' = "playing"
       /\ stats' = ZeroStats
       /\ startTimeRef' = 0 /\ pauseTimeRef' = 0
       /\ rNotes' = notes'
       /\ \A i \in DOMAIN notes' :
            /\ ~notes'[i].hit
            /\ notes'[i].currentY = (0 - 100) * PosScale
            /\ notes'[i].id >= noteIdRef
            /\ notes'[i].id \notin {notes[k].id : k \in DOMAIN notes}]_vars

\* The start of a second session while the label and the timeout of a hit of
\* the first one are still there and its last frame has not been rendered.
C28_Witness ==
  /\ lastOp = "startGame" /\ Len(notes) > 0 /\ notes[1].id > 0
  /\ judgment # "none" /\ timers # {} /\ startTimeRef = 0 /\ now > TimeOrigin

\* C29: in the variants with pauseTimeRef, startGame and a resume leave
\* startTimeRef 0 and it stays 0 until the next tick; that tick sets it to
\* its timestamp minus pauseTimeRef; once set, only a resume, startGame or
\* resetGame changes it, a tick never.
C29_ClockReferenceFixedOnce ==
  [][variant # 1 =>
       /\ lastOp' \in {"startGame", "resume"} => startTimeRef' = 0
       /\ (startTimeRef = 0 /\ lastOp' # "tick") => startTimeRef' = 0
       /\ (startTimeRef = 0 /\ lastOp' = "tick") =>
             (startTimeRef' = now' - pauseTimeRef /\ startTimeRef' # 0)
       /\ (startTimeRef # 0 /\ lastOp' \notin {"resume", "startGame", "resetGame"}) =>
             startTimeRef' = startTimeRef]_vars

\* A tick that kept the reference which the first tick after a resume had
\* fixed below its own timestamp.
C29_Witness ==
  /\ variant = 3 /\ lastOp = "tick" /\ ~afterResume
  /\ pauseTimeRef > 0 /\ startTimeRef > TimeOrigin
  /\ elapsed = now - startTimeRef /\ elapsed > pauseTimeRef

\* C30: a keyDown on a mapped lane judges the currentY values the most
\* recent tick stored in the notes state, and a key event changes no note's
\* currentY and neither startTimeRef nor pauseTimeRef.
C30_KeyDownUsesTickPositions ==
  [][/\ (lastOp' = "keyDown" /\ judged'.lane # -1) =>
          LET stored == checkNoteHit(variant, judged'.lane, notes)
          IN /\ judged'.sel = stored.sel
             /\ judged'.dist = stored.dist
             /\ judged'.text = stored.text
     /\ lastOp' \in {"keyDown", "keyDownIgnored", "keyUp"} =>
          /\ startTimeRef' = startTimeRef /\ pauseTimeRef' = pauseTimeRef
          /\ Len(notes') = Len(notes)
          /\ \A i \in DOMAIN notes : notes'[i].currentY = notes[i].currentY]_vars

\* C31: between startGame and the next resetGame or startGame every step
\* leaves the note list with the same length and, position by position, the
\* same id, lane and startTime (only currentY and hit may differ), and the
\* list is sorted by startTime throughout.
C31_ChartShapeKept ==
  [][/\ (gameState # "menu" /\ lastOp' \notin {"resetGame", "startGame"}) =>
          /\ DOMAIN notes' = DOMAIN notes
          /\ \A i \in DOMAIN notes :
               notes'[i] = [notes[i] EXCEPT !.currentY = notes'[i].currentY,
                                            !.hit = notes'[i].hit]
     /\ \A i \in 1..(Len(notes') - 1) : notes'[i].startTime <= notes'[i + 1].startTime]_vars

\* A two-note chart after a hit on one note and a miss sweep of the other.
C31_Witness ==
  /\ lastOp = "tick" /\ swept # {} /\ Len(notes) = 2
  /\ stats.perfect + stats.good > 0 /\ stats.miss > 0
  /\ \A i \in DOMAIN notes : notes[i].hit

\* C32: in variant 1 a tick leaves the stored y of every note whose hit flag
\* is already true at the value it had.
C32_ResolvedNotMovedV1 ==
  [][(variant = 1 /\ lastOp' = "tick") =>
       \A i \in DOMAIN notes : notes[i].hit => notes'[i].currentY = notes[i].currentY]_vars

\* C33: gameState is never "ended", and once every note of the chart is
\* resolved the session stays "playing" at every step other than a pause or
\* a resetGame, with the frame loop still running after each tick.
C33_NoEndOfSession ==
  [][/\ gameState' # "ended"
     /\ (gameState = "playing" /\ notes # <<>> /\ \A i \in DOMAIN notes : notes[i].hit) =>
          /\ (gameState' = "playing" \/ lastOp' \in {"pause", "resetGame"})
          /\ lastOp' = "tick" => rafPending']_vars

\* A rendered tick that found the whole two-note chart already resolved.
C33_Witness ==
  /\ gameState = "playing" /\ lastOp = "tick" /\ swept = {} /\ rafPending
  /\ Len(notes) = 2 /\ \A i \in DOMAIN notes : notes[i].hit /\ rNotes[i].hit

\* C34: at most one requestAnimationFrame callback is outstanding, and it is
\* the one animationRef names: every request is made after the earlier one has
\* run (the tick rescheduling itself) or been cancelled (the effect's cleanup).
C34_OneFramePending ==
  /\ pendingFrames \in {0, 1}
  /\ (pendingFrames = 1) <=> rafPending

\* The render after a tick that had rescheduled itself: the effect has
\* cancelled that request and made its own for the new gameLoop.
C34_Witness ==
  /\ variant = 2 /\ gameState = "playing" /\ lastOp = "other" /\ ~dirty
  /\ elapsed > 0 /\ rNotes = notes /\ pendingFrames = 1 /\ animationRef = 1

\* C36: in the variants with pauseTimeRef a pause taken while startTimeRef
\* is 0 leaves pauseTimeRef as it was, and the tick that finds startTimeRef 0
\* computes exactly that offset as elapsed, however many pause/resume pairs
\* came before it without a tick.
C36_PauseBeforeTickKeepsOffset ==
  [][variant # 1 =>
       /\ (lastOp' = "pause" /\ startTimeRef = 0) => pauseTimeRef' = pauseTimeRef
       /\ lastOp' = "resume" => pauseTimeRef' = pauseTimeRef
       /\ (lastOp' = "tick" /\ startTimeRef = 0) => elapsed' = pauseTimeRef]_vars

\* A second pause right after a resume, no tick in between, in a session
\* that had run before its first pause.
C36_Witness ==
  /\ variant = 2 /\ lastOp = "pause" /\ resumed
  /\ startTimeRef = 0 /\ pauseTimeRef > 0 /\ pausedElapsed = pauseTimeRef

\* C37: gameState changes only from "menu" to "playing" by startGame, from
\* "playing" to "paused" and back by togglePause, and from "playing" or
\* "paused" to "menu" by resetGame; each of these commands makes exactly its
\* transition, and togglePause acts in no other state.
C37_SessionTransitions ==
  [][/\ gameState' # gameState =>
          \/ gameState = "menu" /\ gameState' = "playing" /\ lastOp' = "startGame"
          \/ gameState = "playing" /\ gameState' = "paused" /\ lastOp' = "pause"
          \/ gameState = "paused" /\ gameState' = "playing" /\ lastOp' = "resume"
          \/ gameState \in {"playing", "paused"} /\ gameState' = "menu" /\ lastOp' = "resetGame"
     /\ lastOp' = "startGame" => (gameState = "menu" /\ gameState' = "playing")
     /\ lastOp' = "pause" => (gameState = "playing" /\ gameState' = "paused")
     /\ lastOp' = "resume" => (gameState = "paused" /\ gameState' = "playing")
     /\ lastOp' = "resetGame" => (gameState \in {"playing", "paused"} /\ gameState' = "menu")]_vars

\* A second session, paused after it had run: every transition has been taken.
C37_Witness ==
  /\ gameState = "paused" /\ lastOp = "pause" /\ pauseTimeRef > 0
  /\ Len(notes) > 0 /\ notes[1].id > 0

\* C38: no two notes of a generated chart have both the same lane and the
\* same startTime, and the position updater of a tick gives two notes of one
\* lane different currentY values, at every frame time of the model.
C38_LaneTimeUnique ==
  lastOp = "startGame" =>
     \A i, k \in DOMAIN notes :
        (i # k /\ notes[i].lane = notes[k].lane) =>
           /\ notes[i].startTime # notes[k].startTime
           /\ \A ts \in Instants :
                LET moved == MoveNotes(variant, speedMultiplier, difficulty,
                                       ts - TimeOrigin, notes)
                IN moved[i].currentY # moved[k].currentY

\* A hard 8-key chart with a quad and a later pattern that uses one of the
\* quad's lanes again.
C38_Witness ==
  /\ lastOp = "startGame" /\ variant = 2 /\ keyMode = 8 /\ difficulty = "hard"
  /\ \E i, k \in DOMAIN notes :
       /\ notes[i].lane = notes[k].lane /\ notes[i].startTime < notes[k].startTime
       /\ Cardinality({n \in DOMAIN notes : notes[n].startTime = notes[i].startTime}) = 4

\* C35: a keyDown for a code whose lane is in pressedKeys (an auto-repeat,
\* or a second code of the same lane) judges nothing and leaves stats, notes,
\* the label and pressedKeys as they were; a judgment is made only on a lane
\* that is not in pressedKeys, and only a keyUp takes a lane out of it.
C35_OneJudgmentPerPress ==
  [][/\ \A code \in HeldKeyCodes :
          (KEY_MODES(variant, keyMode, code) \in pressedKeys /\ KeyDown(code)) =>
             (lastOp' = "keyDownIgnored"
              /\ UNCHANGED <<stats, notes, rNotes, judgment, timers, pressedKeys>>)
     /\ lastOp' = "keyDown" => judged'.lane \notin pressedKeys
     /\ pressedKeys \ pressedKeys' # {} => lastOp' = "keyUp"]_vars

\* With KeyA held after a judged press, a keyDown of ArrowLeft is ignored
\* although another unresolved note of lane 0 stands in the window.
C35_Witness ==
  /\ keyMode = 4 /\ gameState = "playing" /\ lastOp = "keyDownIgnored"
  /\ held = {"KeyA", "ArrowLeft"} /\ pressedKeys = {0}
  /\ stats.perfect + stats.good = 1
  /\ \E i \in DOMAIN rNotes :
       rNotes[i].lane = 0 /\ ~rNotes[i].hit /\ Distance(rNotes[i]) < Px(GOOD_THRESHOLD(2))

\* C39: once no key is physically held, pressedKeys is empty.
C39_NoStuckLane ==
  held = {} => pressedKeys = {}

====
